---- MODULE Spec2Model ----
(***************************************************************************)
(* Solve-job lifecycle of amplLABS: backend/app/api/routes/solver.py       *)
(* (submission, background execution, status table, cancellation), the     *)
(* adapter backend/app/core/ampl_engine.py and the cascade of              *)
(* backend/app/api/routes/models.py:delete_model.                          *)
(*                                                                         *)
(* Two specifications:                                                     *)
(*   Spec    the orchestrator and the adapter as written, on a store that  *)
(*           accepts every query and commit;                               *)
(*   SpecF   the same, plus the collaborators' failures: a store query or  *)
(*           commit that raises, an adapter outcome whose constraints are  *)
(*           not a mapping, and deletion of a model (cascading to its      *)
(*           Runs) while jobs are in flight.                               *)
(*                                                                         *)
(* Python's None is NoneInt for optional integers and NoneStr for optional *)
(* strings.  Timestamps are modelled by whether they are set.  Primary     *)
(* keys are fresh: an id is never handed out twice.                        *)
(***************************************************************************)
EXTENDS Integers, Sequences, FiniteSets, TLC

\* ---- bounds ----
MaxJobs == 2
MaxModels == 1
MaxDataFiles == 1
MaxInstances == 2
MaxSockets == 3
MaxSends == 1
MaxPieces == 2

\* ---- Python values ----
NoneInt == -1
NoneStr == "None"

Jobs == 1..MaxJobs
ReqModelIds == 1..(MaxModels + 1)
ReqDataFileIds == {NoneInt} \cup (0..(MaxDataFiles + 1))

\* truth value of an optional integer / string where the code writes `if x:`
TruthyInt(x) == x # NoneInt /\ x # 0
TruthyStr(s) == s # NoneStr /\ s # ""

\* ---- the adapter's vocabulary ----
\* A raw solve_result text is a sequence of pieces: a word of the engine's
\* vocabulary in some case, or blank space.
Blank == " "
Pieces == {"solved", "optimal", "infeasible", "unbounded", "error", "failure", "limit",
           Blank, "SOLVED", "Infeasible", "Failure"}
Texts == UNION {[1..n -> Pieces] : n \in 0..MaxPieces}

\* str.lower on a piece
LowerPiece(p) ==
    CASE p = "SOLVED" -> "solved"
      [] p = "Infeasible" -> "infeasible"
      [] p = "Failure" -> "failure"
      [] OTHER -> p

\* `token in piece` for the tokens _normalize_status looks for
PieceContains(p, token) == p = token \/ (p = "failure" /\ token = "fail")

RECURSIVE LStrip(_)
LStrip(t) == IF t # <<>> /\ Head(t) = Blank THEN LStrip(Tail(t)) ELSE t
RECURSIVE RStrip(_)
RStrip(t) ==
    IF t # <<>> /\ t[Len(t)] = Blank THEN RStrip(SubSeq(t, 1, Len(t) - 1)) ELSE t
\* str.strip
Strip(t) == RStrip(LStrip(t))
\* str.lower
Lower(t) == [i \in DOMAIN t |-> LowerPiece(t[i])]
\* `token in status`
Contains(status, token) == \E i \in DOMAIN status : PieceContains(status[i], token)

\* a normalisation that compares the text as the engine wrote it
NormalizeStatusCaseSensitive(raw_status) ==
    LET status == Strip(raw_status)
    IN  IF Contains(status, "solved") \/ Contains(status, "optimal") THEN "optimal"
        ELSE IF Contains(status, "infeasible") THEN "infeasible"
        ELSE IF Contains(status, "unbounded") THEN "unbounded"
        ELSE IF Contains(status, "error") \/ Contains(status, "fail") THEN "error"
        ELSE "unknown"

\* _normalize_status, lines 205-218; the tokens "locally optimal" and
\* "globally optimal" of line 209 hold "optimal" and add no case
NormalizeStatus(raw_status) ==
    LET status == Lower(Strip(raw_status))
    IN  IF Contains(status, "solved") \/ Contains(status, "optimal") THEN "optimal"
        ELSE IF Contains(status, "infeasible") THEN "infeasible"
        ELSE IF Contains(status, "unbounded") THEN "unbounded"
        ELSE IF Contains(status, "error") \/ Contains(status, "fail") THEN "error"
        ELSE "unknown"

\* what ampl.getValue("solve_result") gives: a text, or an exception
SolveResultValue(t) == [readable |-> TRUE, text |-> t]
Unreadable == [readable |-> FALSE, text |-> <<>>]
SolveResultValues == {SolveResultValue(t) : t \in Texts} \cup {Unreadable}

\* the values the job specifications let the engine report
RawResults ==
    {Unreadable} \cup
    {SolveResultValue(t) :
        t \in {<<>>, <<"solved">>, <<"infeasible">>, <<"unbounded">>, <<"failure">>,
               <<"limit">>, <<"Infeasible", "unbounded">>, <<"optimal", "error">>}}

\* _get_solve_status, lines 195-203: an empty or unreadable solve_result is "unknown"
GetSolveStatus(raw) ==
    IF ~raw.readable \/ raw.text = <<>> THEN "unknown" ELSE NormalizeStatus(raw.text)

ResultStatuses == {"optimal", "infeasible", "unbounded", "unknown"}
TerminalStatuses == ResultStatuses \cup {"error"}

\* str(e) of an exception the adapter catches (it may be empty)
SolverCrashed == "solver crashed"
ExcTexts == {"", SolverCrashed}
AmplUnavailable == "ampl unavailable"
\* an exception without a text
NoRunTextMissing == NoneStr
NoRunText == "NoneType has no attribute status"
StoreText == "store failure"
NotAMappingText == "NoneType has no attribute items"
DefaultErrorText == "Solver execution failed"

\* variables / constraints of a SolveResult: name -> list of instances.
\* A dict is a function on the names it holds; NotADict stands for a value
\* without .items() (a non-conforming adapter).
VarNames == {"x"}
ConNames == {"c"}
NotADict == [type |-> "NoneType"]
InstanceLists == {[i \in 1..MaxInstances |-> [index |-> i]]}
Dicts(names) == {[n \in D |-> l] : D \in SUBSET names, l \in InstanceLists}
\* the (variables, constraints) pairs the adapter is let to report
Payloads == {<<vs, cs>> \in Dicts(VarNames) \X Dicts(ConNames) : vs = <<>> => cs = <<>>}

\* SolveResult dataclass
SolveResult(st, obj, vs, cs, msg) ==
    [status |-> st, objective_value |-> obj, variables |-> vs, constraints |-> cs,
     error_message |-> msg]

\* solve_model, `except Exception as e` branch
ErrorResult(e) == SolveResult("error", NoneInt, <<>>, <<>>, e)
NoResult == SolveResult("none", NoneInt, <<>>, <<>>, NoneStr)

\* _get_objective_value: the first objective's value, None when there is none
ObjectiveValue == 42
GetObjectiveValue(p) == IF p[1] = <<>> THEN NoneInt ELSE ObjectiveValue
\* solve_model, normal return
NormalResults ==
    {SolveResult(GetSolveStatus(raw), GetObjectiveValue(p), p[1], p[2], NoneStr) :
        raw \in RawResults, p \in Payloads}
\* a replaced adapter handing back constraints=None
MalformedResults ==
    {SolveResult("optimal", ObjectiveValue, vs, NotADict, NoneStr) :
        vs \in Dicts(VarNames) \ {<<>>}}
\* the outcomes SpecF runs on: every status with variables and constraints
\* reported, a caught exception, and the malformed outcome
FullResults == {o \in NormalResults : o.variables # <<>> /\ o.constraints # <<>>}

\* ---- helpers on dicts and tables ----
\* a store that drops what it is given
PutNothing(f, k, v) == f

Put(f, k, v) == [x \in (DOMAIN f) \cup {k} |-> IF x = k THEN v ELSE f[x]]
Drop(f, ks) == [x \in (DOMAIN f) \ ks |-> f[x]]

RECURSIVE Flatten(_, _)
\* `for name, data in d.items(): for v in data:` as the list of (name, index)
Flatten(d, names) ==
    IF names = {} THEN <<>>
    ELSE LET n == CHOOSE x \in names : TRUE
         IN  [i \in 1..Len(d[n]) |-> [name |-> n, indices |-> d[n][i].index]]
             \o Flatten(d, names \ {n})
Items(d) == Flatten(d, DOMAIN d)

\* one row per name: the index of the instance is dropped
RowsForPerName(runId, items) ==
    {[optimization_run_id |-> runId, name |-> items[i].name, indices |-> NoneInt] :
        i \in 1..Len(items)}

\* the rows one `db.add` per item puts in the session; a table is the set of
\* its rows (the row id is left out)
RowsFor(runId, items) ==
    {[optimization_run_id |-> runId, name |-> items[i].name,
      indices |-> items[i].indices] : i \in 1..Len(items)}

RowsOf(table, runId) == {row \in table : row.optimization_run_id = runId}
Without(table, runIds) == {row \in table : row.optimization_run_id \notin runIds}

VARIABLES
    models,      \* ampl_models rows: the ids that exist
    dataFiles,   \* data_files rows: id -> owning model id
    runs,        \* optimization_runs rows: id -> committed columns
    varRows,     \* variable_results rows, committed
    conRows,     \* constraint_results rows, committed
    nextRunId,   \* next primary key of optimization_runs
    jobStatus,   \* _job_status: token -> entry
    nextJob,     \* next token uuid4 hands out
    pc,          \* position of each job's _execute_solver
    args,        \* arguments the background task was scheduled with
    result,      \* the SolveResult the adapter handed back, while it is in use
    session,     \* state of each procedure's own store session
    path,        \* how each procedure ended: completed, failed, caught, escaped
    writes,      \* committed status writes per job: running and terminal
    response,    \* HTTP status of the last boundary call
    body,        \* what the last boundary call returned, when it returned a model
    active_connections,  \* SolverProgressManager: token -> registered WebSocket
    channel,     \* each WebSocket: its token and where its endpoint stands
    inbox,       \* the messages each WebSocket's client received, oldest first
    sending,     \* the send_* call that awaits its send_json, if any
    created,     \* WebSockets opened so far
    solve_result,  \* what the engine's solve_result holds after a solve
    solve_status   \* what _get_solve_status made of it, once it ran

wsVars == <<active_connections, channel, inbox, sending, created>>
engineVars == <<solve_result, solve_status>>

vars == <<models, dataFiles, runs, varRows, conRows, nextRunId, jobStatus, nextJob,
          pc, args, result, session, path, writes, response, body, wsVars, engineVars>>

storeVars == <<models, dataFiles, runs, varRows, conRows, nextRunId>>
jobVars == <<pc, args, result, session, path, writes>>

apiVars == <<storeVars, jobStatus, nextJob, jobVars, response, body, engineVars>>

\* ---- SolverProgressManager and solver_websocket_endpoint ----
Sockets == 1..MaxSockets
\* the job_id of the WebSocket path: any text, it is not looked up in _job_status
ChannelTokens == 1..MaxJobs
MessageKinds == {"progress", "complete", "error"}

NoChannel == [job_id |-> NoneInt, at |-> "unopened", open |-> FALSE]
NoSend == [kind |-> "none", job_id |-> NoneInt, websocket |-> NoneInt]

\* SolverProgressManager.__init__, and no WebSocket opened yet
WsInit ==
    /\ active_connections = <<>>
    /\ channel = [s \in Sockets |-> NoChannel]
    /\ inbox = [s \in Sockets |-> <<>>]
    /\ sending = NoSend
    /\ created = 0

NoArgs == [run_id |-> NoneInt, has_data |-> FALSE]
NoResponse == NoneInt
NoBody == [type |-> "NoneType"]

\* everything but the models the store holds
InitOther ==
    /\ dataFiles = [d \in 1..MaxDataFiles |-> 1]
    /\ runs = <<>>
    /\ varRows = {}
    /\ conRows = {}
    /\ nextRunId = 1
    /\ jobStatus = <<>>
    /\ nextJob = 1
    /\ pc = [j \in Jobs |-> "none"]
    /\ args = [j \in Jobs |-> NoArgs]
    /\ result = [j \in Jobs |-> NoResult]
    /\ session = [j \in Jobs |-> "unopened"]
    /\ path = [j \in Jobs |-> "none"]
    /\ writes = [j \in Jobs |-> [running |-> 0, terminal |-> 0]]
    /\ response = NoResponse
    /\ body = NoBody
    /\ WsInit

\* no solve has been read yet
EngineInit ==
    /\ solve_result = Unreadable
    /\ solve_status = NoneStr

Init ==
    /\ models = 1..MaxModels
    /\ InitOther
    /\ EngineInit

\* ---- records ----
\* an entry that already carries a progress payload
NewEntryWithProgress ==
    [status |-> "queued", progress |-> "solving", result_id |-> NoneInt, error |-> NoneStr]

\* run_solver, lines 61-66
NewEntry == [status |-> "queued", progress |-> NoneStr, result_id |-> NoneInt,
             error |-> NoneStr]

\* OptimizationRun(...) of run_solver, lines 69-75; the other columns default to NULL
NewRun(m, d) ==
    [model_id |-> m, data_file_id |-> d, status |-> "queued",
     objective_value |-> NoneInt, error_message |-> NoneStr,
     started_at |-> FALSE, completed_at |-> FALSE,
     \* default=datetime.utcnow at the INSERT: later rows carry later times
     created_at |-> nextRunId]

\* attribute assignments on a loaded row, applied by the next flush
Merge(row, dirty) == [c \in DOMAIN row |-> IF c \in DOMAIN dirty THEN dirty[c] ELSE row[c]]

\* what a session holds unflushed: assigned attributes of opt_run and added rows
Pending(dirty, vs, cs) == [attrs |-> dirty, vars |-> vs, cons |-> cs]
NoPending == Pending(<<>>, {}, {})

\* the adapter's message as it is, without the default
ErrorTextNoDefault(msg) == msg

\* `result.error_message or "Solver execution failed"`
ErrorText(msg) == IF TruthyStr(msg) THEN msg ELSE DefaultErrorText

\* the entry keeps reading running after the terminal write
CompletedStatusRunning == "running"

\* status written by the happy path, line 242
CompletedStatus == "completed"

\* an HTTPException, or an answer without a response model
Respond(code) == response' = code /\ body' = NoBody /\ UNCHANGED <<wsVars, engineVars>>
\* an answer with its response model
RespondWith(code, b) == response' = code /\ body' = b /\ UNCHANGED <<wsVars, engineVars>>

\* lines 92-96
SolverRunResponse(token) ==
    [job_id |-> token, status |-> "queued", message |-> "Optimization job queued"]

\* ---- run_solver (POST /run), lines 33-96 ----
\* f: the store operation that raises, if any
RunSolver(m, d, f) ==
    /\ LET code == IF f = "query" THEN 500
                    ELSE IF m \notin models THEN 404
                    ELSE IF TruthyInt(d) /\ d \notin DOMAIN dataFiles THEN 404
                    ELSE IF f # "none" THEN 500
                    ELSE 200
       IN  IF code = 200 THEN RespondWith(200, SolverRunResponse(nextJob))
                         ELSE Respond(code)
    /\ IF f = "query" \/ m \notin models \/ (TruthyInt(d) /\ d \notin DOMAIN dataFiles)
       THEN /\ f \in {"none", "query"}
            /\ UNCHANGED <<storeVars, jobStatus, nextJob, jobVars>>
       ELSE /\ nextJob <= MaxJobs
            /\ jobStatus' = Put(jobStatus, nextJob, NewEntry)
            /\ nextJob' = nextJob + 1
            /\ IF f = "commit"
               THEN UNCHANGED <<storeVars, jobVars>>
               ELSE /\ runs' = Put(runs, nextRunId, NewRun(m, d))
                    /\ nextRunId' = nextRunId + 1
                    /\ UNCHANGED <<models, dataFiles, varRows, conRows>>
                    /\ IF f = "refresh"
                       THEN UNCHANGED jobVars
                       ELSE /\ pc' = [pc EXCEPT ![nextJob] = "scheduled"]
                            /\ args' = [args EXCEPT ![nextJob] =
                                          [run_id |-> nextRunId, has_data |-> TruthyInt(d)]]
                            /\ UNCHANGED <<result, session, path, writes>>

\* the except path leaves the Run as it is
RecordsErrorNever(found, commitRaises) == FALSE

\* lines 250-254: the error is written when the Run was found and the commit
\* goes through
RecordsError(found, commitRaises) == found /\ ~commitRaises

\* ---- _execute_solver, lines 245-257: except Exception / finally ----
\* a fault of the except path is chosen only where that path uses the store
HandlerFaultApplies(h, inactive) == h # "none" => ~inactive

\* tbl: the status table as the try block left it; e: str(e);
\* inactive: the session's transaction was rolled back by a failed commit, so
\* every further use of the session raises; pend: what the session holds;
\* h: the store operation of this path that raises, if any
ExceptPath(j, tbl, e, inactive, pend, h) ==
    LET rid == args[j].run_id
        queryRaises == inactive \/ h = "query"
        found == ~queryRaises /\ rid \in DOMAIN runs
        commitRaises == found /\ h = "commit"
    IN  /\ HandlerFaultApplies(h, inactive)
        /\ h = "commit" => found
        /\ jobStatus' = [tbl EXCEPT ![j].status = "failed", ![j].error = e]
        /\ IF RecordsError(found, commitRaises)
           THEN /\ runs' = [runs EXCEPT ![rid] =
                              [Merge(@, pend.attrs) EXCEPT !.status = "error",
                                                           !.error_message = e,
                                                           !.completed_at = TRUE]]
                /\ varRows' = varRows \cup pend.vars
                /\ conRows' = conRows \cup pend.cons
                /\ writes' = [writes EXCEPT ![j].terminal = @ + 1]
           ELSE UNCHANGED <<runs, varRows, conRows, writes>>
        /\ path' = [path EXCEPT ![j] = IF queryRaises \/ commitRaises
                                        THEN "escaped" ELSE "caught"]
        /\ pc' = [pc EXCEPT ![j] = "done"]
        /\ session' = [session EXCEPT ![j] = "closed"]
        /\ result' = [result EXCEPT ![j] = NoResult]
        /\ UNCHANGED <<models, dataFiles, nextRunId, nextJob, args>>

\* a start that gives up when the job was cancelled meanwhile
ExecStartUnlessCancelled(j, f, h) ==
    /\ pc[j] = "scheduled"
    /\ jobStatus[j].status # "cancelled"
    /\ f = "none" /\ h = "none"
    /\ args[j].run_id \in DOMAIN runs
    /\ jobStatus' = [jobStatus EXCEPT ![j].status = "running"]
    /\ runs' = [runs EXCEPT ![args[j].run_id].status = "running",
                            ![args[j].run_id].started_at = TRUE]
    /\ writes' = [writes EXCEPT ![j].running = @ + 1]
    /\ pc' = [pc EXCEPT ![j] = "started"]
    /\ session' = [session EXCEPT ![j] = "open"]
    /\ UNCHANGED <<models, dataFiles, varRows, conRows, nextRunId, nextJob,
                   args, result, path, response, body, wsVars, engineVars>>

\* ---- _execute_solver, lines 166-175 ----
ExecStart(j, f, h) ==
    /\ pc[j] = "scheduled"
    /\ UNCHANGED <<response, body, wsVars, engineVars>>
    /\ LET tbl == [jobStatus EXCEPT ![j].status = "running"]
           rid == args[j].run_id
       IN  IF f = "query" THEN ExceptPath(j, tbl, StoreText, FALSE, NoPending, h)
           ELSE IF rid \notin DOMAIN runs
                THEN ExceptPath(j, tbl, NoRunText, FALSE, NoPending, h)
           ELSE IF f = "commit" THEN ExceptPath(j, tbl, StoreText, TRUE, NoPending, h)
           ELSE /\ h = "none"
                /\ jobStatus' = tbl
                /\ runs' = [runs EXCEPT ![rid].status = "running", ![rid].started_at = TRUE]
                /\ writes' = [writes EXCEPT ![j].running = @ + 1]
                /\ pc' = [pc EXCEPT ![j] = "started"]
                /\ session' = [session EXCEPT ![j] = "open"]
                /\ UNCHANGED <<models, dataFiles, varRows, conRows, nextRunId, nextJob,
                               args, result, path>>

\* ---- AMPLEngine.solve_model ----
\* line 123: _create_ampl_instance() is outside the try, its exception reaches
\* _execute_solver
SolveModelRaises(j, h) ==
    /\ pc[j] = "started"
    /\ UNCHANGED <<response, body, wsVars, engineVars>>
    /\ ExceptPath(j, jobStatus, AmplUnavailable, FALSE, NoPending, h)

\* lines 125-155 and 186-191: an exception before the solve is awaited; the
\* progress callback has been called for the stages reached
Stages == {"setup", "loading_model", "loading_data"}
SolveModelFailsEarly(j, stage, e) ==
    /\ pc[j] = "started"
    /\ stage \in Stages
    /\ stage = "loading_data" => args[j].has_data
    /\ jobStatus' = IF stage = "setup" THEN jobStatus
                    ELSE [jobStatus EXCEPT ![j].progress = stage]
    /\ result' = [result EXCEPT ![j] = ErrorResult(e)]
    /\ pc' = [pc EXCEPT ![j] = "returned"]
    /\ UNCHANGED <<storeVars, nextJob, args, session, path, writes, response, body, wsVars, engineVars>>

\* an adapter that reports no progress before the solve
SolveModelSolvingSilent(j) ==
    /\ pc[j] = "started"
    /\ pc' = [pc EXCEPT ![j] = "solving"]
    /\ UNCHANGED <<storeVars, jobStatus, nextJob, args, result, session, path, writes,
                   response, body, wsVars, engineVars>>

\* lines 125-165: every stage passed, the solve runs in its thread
SolveModelSolving(j) ==
    /\ pc[j] = "started"
    /\ jobStatus' = [jobStatus EXCEPT ![j].progress = "solving"]
    /\ pc' = [pc EXCEPT ![j] = "solving"]
    /\ UNCHANGED <<storeVars, nextJob, args, result, session, path, writes, response, body, wsVars, engineVars>>

\* lines 165-193: the solve returned or raised
SolveModelReturn(j, o) ==
    /\ pc[j] = "solving"
    /\ result' = [result EXCEPT ![j] = o]
    /\ pc' = [pc EXCEPT ![j] = "returned"]
    /\ UNCHANGED <<storeVars, jobStatus, nextJob, args, session, path, writes, response, body, wsVars, engineVars>>

\* line 192
NormalizedStatus(r) == IF r.status = "error" THEN "error" ELSE r.status

\* the objective value is not copied to the Run
OutcomeAttrsNoObjective(r) ==
    [status |-> NormalizedStatus(r),
     error_message |-> r.error_message,
     completed_at |-> TRUE]

\* lines 193-201: the attributes assigned to opt_run
OutcomeAttrs(r) ==
    [status |-> NormalizedStatus(r),
     objective_value |-> r.objective_value,
     error_message |-> r.error_message,
     completed_at |-> TRUE]

\* ---- _execute_solver, lines 191-243 ----
WriteOutcome(j, f, h) ==
    /\ pc[j] = "returned"
    /\ UNCHANGED <<response, body, wsVars, engineVars>>
    /\ LET r == result[j]
           rid == args[j].run_id
           normalized_status == NormalizedStatus(r)
           dirty == OutcomeAttrs(r)
           \* the UPDATE of a deleted row matches nothing and the flush raises
           commitRaises == f = "commit" \/ rid \notin DOMAIN runs
           done(how) ==
                /\ pc' = [pc EXCEPT ![j] = "done"]
                /\ path' = [path EXCEPT ![j] = how]
                /\ session' = [session EXCEPT ![j] = "closed"]
                /\ result' = [result EXCEPT ![j] = NoResult]
                /\ writes' = [writes EXCEPT ![j].terminal = @ + 1]
                /\ h = "none"
                /\ UNCHANGED <<models, dataFiles, nextRunId, nextJob, args>>
       IN  IF normalized_status = "error"
           THEN IF commitRaises
                THEN ExceptPath(j, jobStatus, StoreText, TRUE, NoPending, h)
                ELSE /\ runs' = [runs EXCEPT ![rid] = Merge(@, dirty)]
                     /\ UNCHANGED <<varRows, conRows>>
                     /\ jobStatus' = [jobStatus EXCEPT
                                        ![j].status = "failed",
                                        ![j].result_id = rid,
                                        ![j].error = ErrorText(r.error_message)]
                     /\ done("failed")
           ELSE IF r.constraints = NotADict
                THEN ExceptPath(j, jobStatus, NotAMappingText, FALSE,
                                Pending(dirty, RowsFor(rid, Items(r.variables)), {}), h)
           ELSE IF commitRaises
                THEN ExceptPath(j, jobStatus, StoreText, TRUE, NoPending, h)
           ELSE /\ runs' = [runs EXCEPT ![rid] = Merge(@, dirty)]
                /\ varRows' = varRows \cup RowsFor(rid, Items(r.variables))
                /\ conRows' = conRows \cup RowsFor(rid, Items(r.constraints))
                /\ jobStatus' = [jobStatus EXCEPT ![j].status = CompletedStatus,
                                                  ![j].result_id = rid]
                /\ done("completed")

\* line 284
CancelResponse == [message |-> "Cancellation requested"]

\* a cancellation that also clears what the entry holds
CancelJobClearsEntry(t) ==
    /\ IF t \notin DOMAIN jobStatus
       THEN /\ Respond(404)
            /\ UNCHANGED jobStatus
       ELSE /\ jobStatus' = [jobStatus EXCEPT ![t] =
                               [status |-> "cancelled", progress |-> NoneStr,
                                result_id |-> NoneInt, error |-> NoneStr]]
            /\ RespondWith(200, CancelResponse)
    /\ UNCHANGED <<storeVars, nextJob, jobVars>>

\* a cancellation that also marks the durable Run
CancelJobWritesRun(t) ==
    /\ IF t \notin DOMAIN jobStatus
       THEN /\ Respond(404)
            /\ UNCHANGED <<jobStatus, runs>>
       ELSE /\ jobStatus' = [jobStatus EXCEPT ![t].status = "cancelled"]
            /\ runs' = [r \in DOMAIN runs |->
                          IF r = args[t].run_id
                          THEN [runs[r] EXCEPT !.status = "cancelled"]
                          ELSE runs[r]]
            /\ RespondWith(200, CancelResponse)
    /\ UNCHANGED <<models, dataFiles, varRows, conRows, nextRunId, nextJob, jobVars>>

\* ---- cancel_job (POST /cancel/{job_id}), lines 276-284 ----
CancelJob(t) ==
    /\ IF t \notin DOMAIN jobStatus
       THEN /\ Respond(404)
            /\ UNCHANGED jobStatus
       ELSE /\ jobStatus' = [jobStatus EXCEPT ![t].status = "cancelled"]
            /\ RespondWith(200, CancelResponse)
    /\ UNCHANGED <<storeVars, nextJob, jobVars>>

\* ---- delete_model (DELETE /models/{model_id}), with the ORM cascades ----
DeleteModel(m) ==
    IF m \notin models
    THEN /\ Respond(404)
         /\ UNCHANGED <<storeVars, jobStatus, nextJob, jobVars>>
    ELSE LET goneRuns == {r \in DOMAIN runs : runs[r].model_id = m}
             goneFiles == {d \in DOMAIN dataFiles : dataFiles[d] = m}
         IN  /\ models' = models \ {m}
             /\ dataFiles' = Drop(dataFiles, goneFiles)
             /\ runs' = [r \in (DOMAIN runs) \ goneRuns |->
                           IF runs[r].data_file_id \in goneFiles
                           THEN [runs[r] EXCEPT !.data_file_id = NoneInt]
                           ELSE runs[r]]
             /\ varRows' = Without(varRows, goneRuns)
             /\ conRows' = Without(conRows, goneRuns)
             /\ Respond(204)
             /\ UNCHANGED <<nextRunId, jobStatus, nextJob, jobVars>>

\* ---- get_job_status (GET /status/{job_id}), lines 260-273 ----
\* a snapshot that leaves the Run id out
SolverStatusNoResult(t, e) ==
    [job_id |-> t, status |-> e.status, progress |-> e.progress,
     result_id |-> NoneInt, error |-> e.error]

SolverStatus(t, e) ==
    [job_id |-> t, status |-> e.status, progress |-> e.progress,
     result_id |-> e.result_id, error |-> e.error]

GetJobStatus(t) ==
    /\ IF t \notin DOMAIN jobStatus
       THEN Respond(404)
       ELSE RespondWith(200, SolverStatus(t, jobStatus[t]))
    /\ UNCHANGED <<storeVars, jobStatus, nextJob, jobVars>>

\* ---- _serialize_run, lines 99-120: the columns the model keeps ----
\* a summary that does not read the Run's status and objective
SerializeRunOther(id) ==
    [id |-> id, model_id |-> runs[id].model_id, data_file_id |-> runs[id].data_file_id,
     status |-> "queued", objective_value |-> NoneInt,
     error_message |-> runs[id].error_message, started_at |-> runs[id].started_at,
     completed_at |-> runs[id].completed_at, created_at |-> runs[id].created_at]

SerializeRun(id) ==
    [id |-> id, model_id |-> runs[id].model_id, data_file_id |-> runs[id].data_file_id,
     status |-> runs[id].status, objective_value |-> runs[id].objective_value,
     error_message |-> runs[id].error_message, started_at |-> runs[id].started_at,
     completed_at |-> runs[id].completed_at, created_at |-> runs[id].created_at]

\* ---- get_result (GET /results/{result_id}), lines 145-151 ----
GetResult(id) ==
    /\ IF id \notin DOMAIN runs
       THEN Respond(404)
       ELSE RespondWith(200, SerializeRun(id))
    /\ UNCHANGED <<storeVars, jobStatus, nextJob, jobVars>>

\* ---- list_results (GET /results), lines 123-142 ----
\* query.filter(OptimizationRun.model_id == model_id) when model_id is not None
Matching(model_id) ==
    {r \in DOMAIN runs : model_id = NoneInt \/ runs[r].model_id = model_id}

RECURSIVE OrderByCreatedDesc(_)
\* order_by(OptimizationRun.created_at.desc())
OrderByCreatedDesc(ids) ==
    IF ids = {} THEN <<>>
    ELSE LET r == CHOOSE x \in ids :
                    \A y \in ids : runs[x].created_at >= runs[y].created_at
         IN  <<r>> \o OrderByCreatedDesc(ids \ {r})

\* .offset(skip).limit(limit) as SQLite runs it: a negative OFFSET is 0, a
\* negative LIMIT is no limit
Window(seq, skip, limit) ==
    LET from == IF skip < 0 THEN 0 ELSE skip
        rest == SubSeq(seq, from + 1, Len(seq))
    IN  IF limit < 0 \/ limit >= Len(rest) THEN rest ELSE SubSeq(rest, 1, limit)

SolverResultList(model_id, skip, limit) ==
    LET page == Window(OrderByCreatedDesc(Matching(model_id)), skip, limit)
    IN  [total |-> Cardinality(Matching(model_id)),
         items |-> [i \in 1..Len(page) |-> SerializeRun(page[i])]]

ListResults(model_id, skip, limit) ==
    /\ RespondWith(200, SolverResultList(model_id, skip, limit))
    /\ UNCHANGED <<storeVars, jobStatus, nextJob, jobVars>>

\* ---- SolverProgressManager, lines 7-64, and its endpoint, lines 71-85 ----
\* a client opens the WebSocket for job_id t; the endpoint awaits accept(), line 15
WsOpen(t) ==
    /\ created < MaxSockets
    /\ created' = created + 1
    /\ channel' = [channel EXCEPT ![created + 1] =
                     [job_id |-> t, at |-> "accepting", open |-> TRUE]]
    /\ UNCHANGED <<active_connections, inbox, sending, apiVars>>

\* a registration that keeps the listener a token already has
ConnectKeepsFirst(s) ==
    /\ channel[s].at = "accepting"
    /\ active_connections' =
          IF channel[s].job_id \in DOMAIN active_connections
          THEN active_connections
          ELSE Put(active_connections, channel[s].job_id, s)
    /\ channel' = [channel EXCEPT ![s].at = "receiving"]
    /\ UNCHANGED <<inbox, sending, created, apiVars>>

\* connect, line 16: the accept came back
Connect(s) ==
    /\ channel[s].at = "accepting"
    /\ active_connections' = Put(active_connections, channel[s].job_id, s)
    /\ channel' = [channel EXCEPT ![s].at = "receiving"]
    /\ UNCHANGED <<inbox, sending, created, apiVars>>

\* disconnect, lines 18-21
Disconnect(job_id) == active_connections' = Drop(active_connections, {job_id})

\* the client goes away; its endpoint still waits in receive_text
ClientClose(s) ==
    /\ channel[s].at = "receiving"
    /\ channel[s].open
    /\ channel' = [channel EXCEPT ![s].open = FALSE]
    /\ UNCHANGED <<active_connections, inbox, sending, created, apiVars>>

\* lines 84-85: receive_text raises WebSocketDisconnect
EndpointDisconnect(s) ==
    /\ channel[s].at = "receiving"
    /\ ~channel[s].open
    /\ Disconnect(channel[s].job_id)
    /\ channel' = [channel EXCEPT ![s].at = "ended"]
    /\ UNCHANGED <<inbox, sending, created, apiVars>>

\* lines 76-83: the client sends "cancel"; the endpoint answers and returns,
\* which closes the WebSocket
EndpointCancel(s) ==
    /\ channel[s].at = "receiving"
    /\ channel[s].open
    /\ inbox' = [inbox EXCEPT ![s] =
                   Append(@, [type |-> "cancelled", job_id |-> channel[s].job_id])]
    /\ channel' = [channel EXCEPT ![s].at = "ended", ![s].open = FALSE]
    /\ UNCHANGED <<active_connections, sending, created, apiVars>>

\* send_progress, send_completion, send_error up to `await websocket.send_json`
SendBegin(kind, t) ==
    /\ sending = NoSend
    /\ IF t \notin DOMAIN active_connections
       THEN UNCHANGED sending
       ELSE /\ Len(inbox[active_connections[t]]) < MaxSends
            /\ sending' = [kind |-> kind, job_id |-> t,
                           websocket |-> active_connections[t]]
    /\ UNCHANGED <<active_connections, channel, inbox, created, apiVars>>

\* a send that leaves the listener registered whatever happens
SendEndKeepsListener ==
    /\ sending # NoSend
    /\ inbox' = IF channel[sending.websocket].open
                THEN [inbox EXCEPT ![sending.websocket] =
                        Append(@, [type |-> sending.kind, job_id |-> sending.job_id])]
                ELSE inbox
    /\ sending' = NoSend
    /\ UNCHANGED <<active_connections, channel, created, apiVars>>

\* send_json came back or raised: lines 33-34, 46-49, 61-64
SendEnd ==
    /\ sending # NoSend
    /\ LET s == sending.websocket
           sent == channel[s].open
       IN  /\ inbox' = IF sent
                       THEN [inbox EXCEPT ![s] =
                               Append(@, [type |-> sending.kind, job_id |-> sending.job_id])]
                       ELSE inbox
           /\ IF sending.kind = "progress" /\ sent
              THEN UNCHANGED active_connections
              ELSE Disconnect(sending.job_id)
    /\ sending' = NoSend
    /\ UNCHANGED <<channel, created, apiVars>>

\* ---- specifications ----
Tokens == 1..(MaxJobs + 1)
AdapterResults == NormalResults \cup {ErrorResult(e) : e \in ExcTexts}

Next ==
    \/ \E m \in ReqModelIds, d \in ReqDataFileIds : RunSolver(m, d, "none")
    \/ \E j \in Jobs : ExecStart(j, "none", "none")
    \/ \E j \in Jobs : SolveModelRaises(j, "none")
    \/ \E j \in Jobs, stage \in Stages, e \in ExcTexts : SolveModelFailsEarly(j, stage, e)
    \/ \E j \in Jobs : SolveModelSolving(j)
    \/ \E j \in Jobs, o \in AdapterResults : SolveModelReturn(j, o)
    \/ \E j \in Jobs : WriteOutcome(j, "none", "none")
    \/ \E t \in Tokens : CancelJob(t)

Spec == Init /\ [][Next]_vars

SubmitFaults == {"none", "query", "commit", "refresh"}
StoreFaults == {"none", "query", "commit"}

NextF ==
    \/ \E m \in ReqModelIds, d \in ReqDataFileIds, f \in SubmitFaults : RunSolver(m, d, f)
    \/ \E j \in Jobs, f \in StoreFaults, h \in StoreFaults : ExecStart(j, f, h)
    \/ \E j \in Jobs, h \in StoreFaults : SolveModelRaises(j, h)
    \/ \E j \in Jobs, stage \in Stages : SolveModelFailsEarly(j, stage, SolverCrashed)
    \/ \E j \in Jobs : SolveModelSolving(j)
    \/ \E j \in Jobs, o \in FullResults \cup {ErrorResult(SolverCrashed)} \cup MalformedResults :
            SolveModelReturn(j, o)
    \/ \E j \in Jobs, f \in {"none", "commit"}, h \in StoreFaults : WriteOutcome(j, f, h)
    \/ \E t \in Tokens : CancelJob(t)
    \/ \E m \in ReqModelIds : DeleteModel(m)

SpecF == Init /\ [][NextF]_vars

\* ---- the boundary with its read operations, on a store of several models ----
QueryModels == 1..(MaxModels + 1)
InitQ ==
    /\ models = QueryModels
    /\ InitOther
    /\ EngineInit

QueryResults ==
    {o \in FullResults : o.status \in {"optimal", "infeasible"}} \cup {ErrorResult("")}
ResultIds == 1..(MaxJobs + 1)
ModelFilters == {NoneInt} \cup (1..(MaxModels + 2))
\* skip and limit are any integers: the handler does not validate them
Skips == (-1)..MaxJobs
Limits == (-1)..MaxJobs

NextQ ==
    \/ \E m \in 1..(MaxModels + 2) : RunSolver(m, NoneInt, "none")
    \/ \E j \in Jobs : ExecStart(j, "none", "none")
    \/ \E j \in Jobs : SolveModelRaises(j, "none")
    \/ \E j \in Jobs : SolveModelSolving(j)
    \/ \E j \in Jobs, o \in QueryResults : SolveModelReturn(j, o)
    \/ \E j \in Jobs : WriteOutcome(j, "none", "none")
    \/ \E t \in Tokens : CancelJob(t)
    \/ \E t \in Tokens : GetJobStatus(t)
    \/ \E id \in ResultIds : GetResult(id)
    \/ \E model_id \in ModelFilters, skip \in Skips, limit \in Limits :
            ListResults(model_id, skip, limit)

SpecQ == InitQ /\ [][NextQ]_vars

\* ---- the job lifecycle under a scheduler that lets every procedure run ----
\* one step of the execution procedure of job j; the adapter call ends
ExecStep(j) ==
    \/ ExecStart(j, "none", "none")
    \/ SolveModelRaises(j, "none")
    \/ SolveModelSolving(j)
    \/ \E o \in QueryResults : SolveModelReturn(j, o)
    \/ WriteOutcome(j, "none", "none")

NextL ==
    \/ \E m \in 1..(MaxModels + 2), d \in ReqDataFileIds : RunSolver(m, d, "none")
    \/ \E j \in Jobs : ExecStep(j)
    \/ \E t \in Tokens : CancelJob(t)

\* the event loop runs a scheduled background task, and asyncio.to_thread hands
\* the solve back
Fairness == \A j \in Jobs : WF_vars(ExecStep(j))

SpecL == InitQ /\ [][NextL]_vars /\ Fairness

\* ---- the progress channel on its own ----
NextP ==
    \/ \E t \in ChannelTokens : WsOpen(t)
    \/ \E s \in Sockets : Connect(s)
    \/ \E s \in Sockets : ClientClose(s)
    \/ \E s \in Sockets : EndpointDisconnect(s)
    \/ \E s \in Sockets : EndpointCancel(s)
    \/ \E kind \in MessageKinds, t \in ChannelTokens : SendBegin(kind, t)
    \/ SendEnd

SpecP == Init /\ [][NextP]_vars

\* ---- the adapter's reading of the engine's solve_result ----
\* the engine finished a solve and holds any text, or cannot be read
InitN ==
    /\ models = 1..MaxModels
    /\ InitOther
    /\ solve_result \in SolveResultValues
    /\ solve_status = NoneStr

\* solve_model, line 169: status = self._get_solve_status(ampl)
ReadSolveStatus ==
    /\ solve_status = NoneStr
    /\ solve_status' = GetSolveStatus(solve_result)
    /\ UNCHANGED <<storeVars, jobStatus, nextJob, jobVars, response, body, wsVars,
                   solve_result>>

NextN == ReadSolveStatus

SpecN == InitN /\ [][NextN]_vars

\* ---- the job lifecycle while models, and with them Runs, are deleted ----
NextD ==
    \/ Next
    \/ \E m \in ReqModelIds : DeleteModel(m)

SpecD == Init /\ [][NextD]_vars

\* ---- the execution procedure of jobs whose tokens have listeners ----
NextJ ==
    \/ RunSolver(1, NoneInt, "none")
    \/ \E j \in Jobs : ExecStep(j)
    \/ \E t \in ChannelTokens : WsOpen(t)
    \/ \E s \in Sockets : Connect(s)

SpecJ == Init /\ [][NextJ]_vars

TypeOK ==
    /\ DOMAIN jobStatus \subseteq Jobs
    /\ \A j \in Jobs : pc[j] \in {"none", "scheduled", "started", "solving", "returned", "done"}
    /\ \A r \in DOMAIN runs : runs[r].status \in {"queued", "running"} \cup TerminalStatuses

\* ---- properties ----
RunOf(j) == args[j].run_id
Finishes(j) == pc[j] # "done" /\ pc'[j] = "done"
Rank(st) == IF st = "running" THEN 1 ELSE IF st \in TerminalStatuses THEN 2 ELSE 0

\* C1: when a job's execution procedure finishes on an adapter outcome of status
\* error, the durable Run has status error, the adapter's error message and a
\* completion time, no VariableResult and no ConstraintResult row exists for the
\* Run, and the job's status entry reads failed with result_id = the Run id and
\* a non-empty error text: the adapter's message, or the default text when the
\* adapter supplied none.
C1_ErrorOutcome ==
    [][\A j \in Jobs :
         (Finishes(j) /\ pc[j] = "returned" /\ result[j].status = "error") =>
            /\ RunOf(j) \in DOMAIN runs'
            /\ runs'[RunOf(j)].status = "error"
            /\ runs'[RunOf(j)].error_message = result[j].error_message
            /\ runs'[RunOf(j)].completed_at
            /\ RowsOf(varRows', RunOf(j)) = {}
            /\ RowsOf(conRows', RunOf(j)) = {}
            /\ jobStatus'[j].status = "failed"
            /\ jobStatus'[j].result_id = RunOf(j)
            /\ jobStatus'[j].error \notin {NoneStr, ""}
            /\ jobStatus'[j].error =
                   IF result[j].error_message \in {NoneStr, ""}
                   THEN DefaultErrorText ELSE result[j].error_message]_vars

\* an error outcome without a message was written: the default text is in the entry
C1_Witness ==
    \E j \in Jobs :
        /\ pc[j] = "done" /\ path[j] = "failed"
        /\ jobStatus[j].status = "failed"
        /\ jobStatus[j].error = DefaultErrorText
        /\ runs[RunOf(j)].status = "error"
        /\ runs[RunOf(j)].error_message \in {NoneStr, ""}

\* C2: when a job's execution procedure finishes on a non-error adapter outcome,
\* the durable Run's status and objective value are the ones the adapter
\* reported, and the job's status entry reads completed with result_id = the
\* Run id and no error text.
C2_SuccessOutcome ==
    [][\A j \in Jobs :
         (Finishes(j) /\ pc[j] = "returned" /\ result[j].status # "error") =>
            /\ RunOf(j) \in DOMAIN runs'
            /\ runs'[RunOf(j)].status = result[j].status
            /\ runs'[RunOf(j)].objective_value = result[j].objective_value
            /\ jobStatus'[j].status = "completed"
            /\ jobStatus'[j].result_id = RunOf(j)
            /\ jobStatus'[j].error = NoneStr]_vars

\* the scenario of the test: optimal with objective 42 ended as completed
C2_Witness ==
    \E j \in Jobs :
        /\ pc[j] = "done" /\ path[j] = "completed"
        /\ jobStatus[j] = [status |-> "completed", progress |-> "solving",
                           result_id |-> RunOf(j), error |-> NoneStr]
        /\ runs[RunOf(j)].status = "optimal"
        /\ runs[RunOf(j)].objective_value = ObjectiveValue

\* C3: when a job's execution procedure finishes on a non-error outcome, the
\* durable Run's status is one of optimal, infeasible, unbounded, unknown, and
\* the Run has as many VariableResult rows as the adapter reported variable
\* (name, index) instances and as many ConstraintResult rows as it reported
\* constraint instances.
C3_RowCounts ==
    [][\A j \in Jobs :
         (Finishes(j) /\ pc[j] = "returned" /\ result[j].status # "error") =>
            /\ runs'[RunOf(j)].status \in ResultStatuses
            /\ Cardinality(RowsOf(varRows', RunOf(j))) = Len(Items(result[j].variables))
            /\ Cardinality(RowsOf(conRows', RunOf(j))) = Len(Items(result[j].constraints))]_vars

\* a completed Run that is not optimal holds several variable rows and no
\* constraint row
C3_Witness ==
    \E j \in Jobs :
        /\ pc[j] = "done" /\ path[j] = "completed"
        /\ runs[RunOf(j)].status \in ResultStatuses \ {"optimal"}
        /\ Cardinality(RowsOf(varRows, RunOf(j))) = MaxInstances
        /\ RowsOf(conRows, RunOf(j)) = {}

C5_ExceptionLikeErrorOutcome ==
    [][\A j \in Jobs :
         (Finishes(j) /\ path'[j] \in {"caught", "escaped"}) =>
            /\ jobStatus'[j].status = "failed"
            /\ jobStatus'[j].error # NoneStr
            /\ jobStatus'[j].result_id = RunOf(j)
            /\ RunOf(j) \in DOMAIN runs' =>
                  /\ runs'[RunOf(j)].status = "error"
                  /\ runs'[RunOf(j)].error_message = jobStatus'[j].error
                  /\ runs'[RunOf(j)].completed_at]_vars

\* C6: the execution procedure never lets an exception escape; whatever fails,
\* the store included, it returns normally with its session closed.
C6_NeverEscapes ==
    \A j \in Jobs :
        pc[j] = "done" => (path[j] # "escaped" /\ session[j] = "closed")

\* C7: the Run of a job receives at most one committed write of status running,
\* and once the procedure has finished exactly one committed write of a
\* terminal status, on the non-error, the adapter-error and the exception path.
C7_ExactlyOnce ==
    \A j \in Jobs :
        /\ writes[j].running <= 1
        /\ writes[j].terminal <= 1
        /\ pc[j] = "done" => writes[j].terminal = 1

\* a procedure ended on the exception path with one running and one terminal write
C7_Witness ==
    \E j \in Jobs :
        /\ pc[j] = "done" /\ path[j] = "caught"
        /\ writes[j] = [running |-> 1, terminal |-> 1]
        /\ runs[RunOf(j)].status = "error"

\* C8: a Run's durable status only moves forward, queued, then running, then a
\* terminal status; no step returns it to an earlier status, and a committed
\* terminal status is never changed.
C8_ForwardOnly ==
    [][\A r \in (DOMAIN runs) \cap (DOMAIN runs') :
         /\ Rank(runs'[r].status) >= Rank(runs[r].status)
         /\ runs[r].status \in TerminalStatuses => runs'[r].status = runs[r].status]_vars

\* a cancellation arrived after the terminal write and the Run kept its status
C8_Witness ==
    \E j \in Jobs :
        /\ pc[j] = "done"
        /\ jobStatus[j].status = "cancelled"
        /\ RunOf(j) \in DOMAIN runs
        /\ runs[RunOf(j)].status \in TerminalStatuses

\* C9: a submit whose model id does not exist, or whose supplied data-file id
\* does not exist, answers NotFound and creates no Run, registers no status
\* entry and schedules no execution.
C9_SubmitNotFound ==
    [][\A m \in ReqModelIds, d \in ReqDataFileIds :
         (RunSolver(m, d, "none")
            /\ (m \notin models \/ (d # NoneInt /\ d \notin DOMAIN dataFiles))) =>
            /\ response' = 404
            /\ UNCHANGED <<runs, jobStatus, pc>>]_vars

\* C10: a submit that fails, a failure of the store while the queued Run is
\* persisted included, leaves no new Run, no new status entry and no scheduled
\* execution.
C10_FailedSubmitLeavesNothing ==
    [][\A m \in ReqModelIds, d \in ReqDataFileIds, f \in SubmitFaults :
         (RunSolver(m, d, f) /\ response' # 200) =>
            UNCHANGED <<runs, jobStatus, pc>>]_vars

\* C11: a successful submit persists a Run in status queued, registers a status
\* entry that reads queued with no progress, result_id or error, schedules the
\* execution procedure and answers with the token and the literal status
\* queued; at that moment the procedure has taken no step: the Run is still
\* queued and the adapter has not been invoked.
C11_SubmitQueued ==
    [][\A m \in ReqModelIds, d \in ReqDataFileIds :
         (RunSolver(m, d, "none") /\ response' = 200) =>
            /\ nextRunId \notin DOMAIN runs
            /\ nextRunId \in DOMAIN runs'
            /\ runs'[nextRunId].status = "queued"
            /\ runs'[nextRunId].model_id = m
            /\ ~runs'[nextRunId].started_at
            /\ jobStatus'[nextJob] = [status |-> "queued", progress |-> NoneStr,
                                      result_id |-> NoneInt, error |-> NoneStr]
            /\ body'.job_id = nextJob
            /\ body'.status = "queued"
            /\ pc'[nextJob] = "scheduled"
            /\ args'[nextJob].run_id = nextRunId
            /\ result'[nextJob] = NoResult
            /\ writes'[nextJob] = [running |-> 0, terminal |-> 0]]_vars

\* the answer of a submit is out while its procedure has not started
C11_Witness ==
    \E j \in Jobs :
        /\ response = 200
        /\ body = SolverRunResponse(j)
        /\ pc[j] = "scheduled"
        /\ jobStatus[j] = NewEntry
        /\ runs[RunOf(j)].status = "queued"

\* C12: every successful submit creates exactly one Run and no other step
\* creates one, so the Runs created are as many as the successful submissions;
\* the token of a successful submit differs from every token issued before, and
\* a submit leaves every status entry that already exists as it is.
C12_OneRunPerSubmission ==
    [][/\ Cardinality(DOMAIN runs') = Cardinality({j \in Jobs : pc'[j] # "none"})
       /\ nextRunId' - 1 = Cardinality(DOMAIN runs')
       /\ \A m \in ReqModelIds, d \in ReqDataFileIds :
            RunSolver(m, d, "none") =>
               /\ \A t \in DOMAIN jobStatus : jobStatus'[t] = jobStatus[t]
               /\ response' = 200 =>
                    /\ DOMAIN runs' = (DOMAIN runs) \cup {nextRunId}
                    /\ nextRunId \notin DOMAIN runs
                    /\ body'.job_id \notin DOMAIN jobStatus
                    /\ body'.job_id \in DOMAIN jobStatus'
               /\ response' # 200 => DOMAIN runs' = DOMAIN runs]_vars

\* two submissions went through: two Runs, two tokens, the first entry moved on
C12_Witness ==
    /\ Cardinality(DOMAIN runs) = 2
    /\ DOMAIN jobStatus = {1, 2}
    /\ response = 200
    /\ body = SolverRunResponse(2)
    /\ jobStatus[1].status = "running"

\* C13: getStatus answers NotFound exactly for a token no submit has issued
\* (an entry once registered is never removed), otherwise it returns the
\* entry's status, progress, result_id and error as they are; either way it
\* changes neither the status table nor any Run or result row.
C13_GetStatus ==
    [][/\ DOMAIN jobStatus \subseteq DOMAIN jobStatus'
       /\ \A t \in Tokens :
            GetJobStatus(t) =>
               /\ response' = 404 <=> t \notin 1..(nextJob - 1)
               /\ t \in 1..(nextJob - 1) =>
                    /\ response' = 200
                    /\ body' = [job_id |-> t, status |-> jobStatus[t].status,
                                progress |-> jobStatus[t].progress,
                                result_id |-> jobStatus[t].result_id,
                                error |-> jobStatus[t].error]
               /\ UNCHANGED <<jobStatus, runs, varRows, conRows>>]_vars

\* the snapshot of a finished job was read: completed with its Run id
C13_Witness ==
    \E t \in DOMAIN jobStatus :
        /\ response = 200
        /\ body = SolverStatus(t, jobStatus[t])
        /\ body.status = "completed"
        /\ body.result_id = RunOf(t)
        /\ body.progress = "solving"

\* C14: once the execution procedure of a job has made its terminal write, every
\* getStatus for the token returns the status, result_id and error of that
\* write: nothing changes the entry afterwards.
C14_TerminalEntryFixed ==
    [][\A t \in Jobs :
         (GetJobStatus(t) /\ pc[t] = "done") =>
            /\ body'.status = IF path[t] = "completed" THEN "completed" ELSE "failed"
            /\ body'.result_id = IF path[t] \in {"completed", "failed"}
                                 THEN RunOf(t) ELSE NoneInt]_vars

\* C15: requestCancellation on an unknown token answers NotFound and changes
\* nothing; on a known token it sets that entry's status to cancelled, which
\* a getStatus right after reads, and leaves the entry's progress, result_id
\* and error, every other entry and every durable Run and result row unchanged.
C15_Cancel ==
    [][\A t \in Tokens :
         /\ CancelJob(t) =>
              /\ UNCHANGED <<runs, varRows, conRows>>
              /\ IF t \notin DOMAIN jobStatus
                 THEN response' = 404 /\ UNCHANGED jobStatus
                 ELSE /\ response' = 200
                      /\ DOMAIN jobStatus' = DOMAIN jobStatus
                      /\ jobStatus'[t].status = "cancelled"
                      /\ jobStatus'[t].progress = jobStatus[t].progress
                      /\ jobStatus'[t].result_id = jobStatus[t].result_id
                      /\ jobStatus'[t].error = jobStatus[t].error
                      /\ \A u \in (DOMAIN jobStatus) \ {t} : jobStatus'[u] = jobStatus[u]
         /\ (GetJobStatus(t) /\ t \in DOMAIN jobStatus
                /\ jobStatus[t].status = "cancelled") =>
              body'.status = "cancelled"]_vars

\* a cancellation was read back while the job was solving, progress kept
C15_Witness ==
    \E t \in DOMAIN jobStatus :
        /\ response = 200
        /\ body = SolverStatus(t, jobStatus[t])
        /\ body.status = "cancelled"
        /\ body.progress = "solving"
        /\ pc[t] = "solving"
        /\ runs[RunOf(t)].status = "running"

\* C16: a cancellation requested while a job is queued or running does not
\* stop its execution procedure: every step of the procedure stays enabled,
\* the terminal write gives the Run the status and the result rows of the
\* adapter's outcome, and no Run ever has the status cancelled.
C16_CancelDoesNotStop ==
    /\ [](\A r \in DOMAIN runs : runs[r].status # "cancelled")
    /\ [](\A j \in DOMAIN jobStatus :
            jobStatus[j].status = "cancelled" =>
               /\ pc[j] = "scheduled" => ENABLED ExecStart(j, "none", "none")
               /\ pc[j] = "started" => ENABLED SolveModelSolving(j)
               /\ pc[j] = "solving" => ENABLED SolveModelReturn(j, ErrorResult(""))
               /\ pc[j] = "returned" => ENABLED WriteOutcome(j, "none", "none"))
    /\ [][\A j \in Jobs :
            (Finishes(j) /\ pc[j] = "returned" /\ jobStatus[j].status = "cancelled") =>
               /\ runs'[RunOf(j)].status = result[j].status
               /\ RowsOf(varRows', RunOf(j)) =
                     IF result[j].status = "error" THEN {}
                     ELSE RowsFor(RunOf(j), Items(result[j].variables))
               /\ RowsOf(conRows', RunOf(j)) =
                     IF result[j].status = "error" THEN {}
                     ELSE RowsFor(RunOf(j), Items(result[j].constraints))]_vars

\* a job cancelled while queued or running has its adapter outcome in hand
C16_Witness ==
    \E j \in DOMAIN jobStatus :
        /\ jobStatus[j].status = "cancelled"
        /\ pc[j] = "returned"
        /\ result[j].status = "optimal"
        /\ runs[RunOf(j)].status = "running"

\* C17: when the scheduler lets every procedure run, every adapter call ends
\* and the store accepts the writes, each job a submit accepted eventually has
\* its Run in a terminal status and its entry out of queued and running.
C17_EventuallyTerminal ==
    \A j \in Jobs :
        (pc[j] = "scheduled") ~>
            (/\ RunOf(j) \in DOMAIN runs
             /\ runs[RunOf(j)].status \in TerminalStatuses
             /\ jobStatus[j].status \notin {"queued", "running"})

\* both jobs were carried to the end, one to a result and one to an error
C17_Witness ==
    /\ \A j \in Jobs : pc[j] = "done" /\ runs[RunOf(j)].status \in TerminalStatuses
    /\ \E j \in Jobs : jobStatus[j].status = "completed"
    /\ \E j \in Jobs : jobStatus[j].status = "failed"

\* C18: listing results returns the Runs that match the optional model filter,
\* newest creation time first, cut to the window that skips the first skip
\* entries and holds at most limit entries (none for a limit below one); total
\* counts all matching Runs whatever skip and limit are; the listing changes
\* nothing.
C18_ListWindow ==
    [][\A model_id \in ModelFilters, skip \in Skips, limit \in Limits :
         ListResults(model_id, skip, limit) =>
            LET items == body'.items
                all == OrderByCreatedDesc(Matching(model_id))
                from == IF skip < 0 THEN 0 ELSE skip
            IN  /\ response' = 200
                /\ body'.total = Cardinality(Matching(model_id))
                /\ \A i \in 1..Len(items) :
                     /\ from + i <= Len(all)
                     /\ items[i].id = all[from + i]
                     /\ model_id # NoneInt => items[i].model_id = model_id
                /\ \A i \in 1..(Len(items) - 1) :
                     items[i].created_at >= items[i + 1].created_at
                /\ Len(items) <= (IF limit < 0 THEN 0 ELSE limit)
                /\ UNCHANGED <<storeVars, jobStatus>>]_vars

\* C19: fetching a result by id returns the id, status and objective value of
\* the persisted Run with that id, answers NotFound when there is none, and
\* changes no Run either way.
C19_GetResult ==
    [][\A id \in ResultIds :
         GetResult(id) =>
            /\ IF id \in DOMAIN runs
               THEN /\ response' = 200
                    /\ body'.id = id
                    /\ body'.status = runs[id].status
                    /\ body'.objective_value = runs[id].objective_value
               ELSE response' = 404
            /\ UNCHANGED <<runs, varRows, conRows>>]_vars

\* an optimal Run with its objective was fetched
C19_Witness ==
    \E id \in DOMAIN runs :
        /\ response = 200
        /\ body = SerializeRun(id)
        /\ body.status = "optimal"
        /\ body.objective_value = ObjectiveValue

\* C20: the progress manager holds at most one listener per job token, and it
\* is a channel opened for that token; attaching a listener registers it in
\* place of the one the token had, the registration changes to a channel by
\* no other step, and a message sent for a token is addressed and delivered
\* to the listener registered at that moment only.
C20_OneListener ==
    /\ [](\A t \in DOMAIN active_connections :
            /\ active_connections[t] \in Sockets
            /\ channel[active_connections[t]].job_id = t)
    /\ [][/\ \A s \in Sockets :
               Connect(s) =>
                  /\ active_connections'[channel[s].job_id] = s
                  /\ \A u \in (DOMAIN active_connections) \ {channel[s].job_id} :
                       /\ u \in DOMAIN active_connections'
                       /\ active_connections'[u] = active_connections[u]
          /\ \A t \in DOMAIN active_connections' :
               (t \notin DOMAIN active_connections
                   \/ active_connections'[t] # active_connections[t]) =>
                  /\ channel[active_connections'[t]].at = "accepting"
                  /\ channel'[active_connections'[t]].at = "receiving"
          /\ (sending = NoSend /\ sending' # NoSend) =>
               sending'.websocket = active_connections[sending'.job_id]
          /\ \A s \in Sockets :
               (inbox'[s] # inbox[s] /\ inbox'[s][Len(inbox'[s])].type \in MessageKinds) =>
                  /\ s = sending.websocket
                  /\ channel[s].job_id = sending.job_id]_vars

\* a second channel replaced the first for one token and got the message; the
\* first, still open, got none
C20_Witness ==
    \E a, b \in Sockets :
        /\ a # b
        /\ channel[a].job_id = channel[b].job_id
        /\ channel[a].at = "receiving" /\ channel[a].open
        /\ channel[b].at = "receiving" /\ channel[b].open
        /\ channel[b].job_id \in DOMAIN active_connections
        /\ active_connections[channel[b].job_id] = b
        /\ inbox[a] = <<>>
        /\ Len(inbox[b]) = 1
        /\ inbox[b][1].type = "progress"

\* C23: for every raw solve-result text the adapter reports exactly one of
\* optimal, infeasible, unbounded, error, unknown: optimal when the trimmed,
\* lower-cased text contains solved or optimal, otherwise infeasible when it
\* contains infeasible, otherwise unbounded when it contains unbounded,
\* otherwise error when it contains error or fail, otherwise unknown; and
\* unknown when the raw status is empty or cannot be read.
C23_NormalizedStatus ==
    solve_status # NoneStr =>
        LET text == solve_result.text
            has(word) ==
                \E i \in 1..Len(text) :
                    \/ text[i] = word
                    \/ word = "solved" /\ text[i] = "SOLVED"
                    \/ word = "infeasible" /\ text[i] = "Infeasible"
                    \/ word = "fail" /\ text[i] \in {"failure", "Failure"}
        IN  /\ solve_status \in {"optimal", "infeasible", "unbounded", "error", "unknown"}
            /\ solve_status =
                 IF ~solve_result.readable \/ text = <<>> THEN "unknown"
                 ELSE IF has("solved") \/ has("optimal") THEN "optimal"
                 ELSE IF has("infeasible") THEN "infeasible"
                 ELSE IF has("unbounded") THEN "unbounded"
                 ELSE IF has("error") \/ has("fail") THEN "error"
                 ELSE "unknown"

\* a padded, capitalised text was read as infeasible
C23_Witness ==
    /\ solve_result = SolveResultValue(<<Blank, "Infeasible">>)
    /\ solve_status = "infeasible"

\* C21: a completion or an error message leaves the token without listener
\* once the send is over, whether it went through or not; a progress message
\* leaves the registration as it is when the send went through and removes it
\* when the transport failed; a send always comes back to its caller, and a
\* send for a token without listener changes nothing.
C21_SendDetach ==
    /\ [](sending # NoSend => ENABLED SendEnd)
    /\ [][/\ (sending # NoSend /\ sending' # sending) =>
               LET t == sending.job_id
                   s == sending.websocket
                   sent == channel[s].open
               IN  /\ sending' = NoSend
                   /\ sending.kind \in {"complete", "error"} =>
                         t \notin DOMAIN active_connections'
                   /\ (sending.kind = "progress" /\ sent) =>
                         active_connections' = active_connections
                   /\ (sending.kind = "progress" /\ ~sent) =>
                         t \notin DOMAIN active_connections'
                   /\ \A u \in (DOMAIN active_connections) \ {t} :
                         /\ u \in DOMAIN active_connections'
                         /\ active_connections'[u] = active_connections[u]
                   /\ inbox' = IF sent
                               THEN [inbox EXCEPT ![s] =
                                       Append(@, [type |-> sending.kind, job_id |-> t])]
                               ELSE inbox
          /\ \A kind \in MessageKinds, t \in ChannelTokens :
               (SendBegin(kind, t) /\ t \notin DOMAIN active_connections) =>
                  UNCHANGED vars]_vars

\* a progress message reached its listener, which stayed registered, while a
\* send to a broken channel of the other token removed that one
C21_Witness ==
    \E s \in Sockets :
        /\ channel[s].job_id \in DOMAIN active_connections
        /\ active_connections[channel[s].job_id] = s
        /\ Len(inbox[s]) = 1
        /\ inbox[s][1].type = "progress"
        /\ sending = NoSend
        /\ \E b \in Sockets \ {s} :
             /\ channel[b].at = "receiving"
             /\ ~channel[b].open
             /\ channel[b].job_id \notin DOMAIN active_connections
             /\ inbox[b] = <<>>

\* C24: the adapter's solve never raises to the orchestrator: whatever fails,
\* creating or configuring the engine included, the call ends with an outcome,
\* and a failure before the solve gives status error, the failure text and no
\* variables or constraints.
C24_AdapterNeverRaises ==
    [][\A j \in Jobs :
         (pc[j] = "started" /\ pc'[j] # "started") =>
            /\ pc'[j] \in {"solving", "returned"}
            /\ pc'[j] = "returned" =>
                  /\ result'[j].status = "error"
                  /\ result'[j].error_message # NoneStr
                  /\ result'[j].variables = <<>>
                  /\ result'[j].constraints = <<>>]_vars

\* C25: when the Run cannot be loaded as the execution procedure starts, the
\* adapter is not invoked for the job, the entry ends as failed with an error
\* text, and no Run and no result row is created or changed.
C25_RunMissingAtStart ==
    [][\A j \in Jobs :
         (pc[j] = "scheduled" /\ pc'[j] # "scheduled" /\ RunOf(j) \notin DOMAIN runs) =>
            /\ pc'[j] = "done"
            /\ result'[j] = NoResult
            /\ writes'[j] = writes[j]
            /\ jobStatus'[j].status = "failed"
            /\ jobStatus'[j].error \notin {NoneStr, ""}
            /\ jobStatus'[j].result_id = NoneInt
            /\ UNCHANGED <<runs, varRows, conRows, nextRunId>>]_vars

\* the model of a queued job was deleted, and its procedure ended at once
C25_Witness ==
    \E j \in Jobs :
        /\ pc[j] = "done"
        /\ path[j] = "caught"
        /\ RunOf(j) \notin DOMAIN runs
        /\ models = {}
        /\ jobStatus[j].status = "failed"
        /\ jobStatus[j].error = NoRunText
        /\ writes[j] = [running |-> 0, terminal |-> 0]

\* C26: the progress payload of an entry is the last payload the adapter gave
\* the progress callback for that job, none before the first call; only a
\* callback changes it: not the start, the terminal write or a cancellation.
C26_ProgressLastWrite ==
    /\ [](\A j \in DOMAIN jobStatus :
            /\ pc[j] \in {"scheduled", "started"} => jobStatus[j].progress = NoneStr
            /\ pc[j] = "solving" => jobStatus[j].progress = "solving")
    /\ [][\A j \in (DOMAIN jobStatus) \cap (DOMAIN jobStatus') :
            /\ jobStatus'[j].progress # jobStatus[j].progress =>
                  /\ pc[j] = "started"
                  /\ pc'[j] \in {"solving", "returned"}
                  /\ jobStatus'[j].progress \in {"loading_model", "loading_data", "solving"}
            /\ \A stage \in Stages, e \in ExcTexts :
                  SolveModelFailsEarly(j, stage, e) =>
                     jobStatus'[j].progress =
                        IF stage = "setup" THEN NoneStr ELSE stage]_vars

\* a job that failed while loading its data was written and then cancelled:
\* the entry still shows the payload of that stage
C26_Witness ==
    \E j \in DOMAIN jobStatus :
        /\ pc[j] = "done"
        /\ jobStatus[j].status = "cancelled"
        /\ jobStatus[j].progress = "loading_data"
        /\ jobStatus[j].result_id = RunOf(j)

\* C27: a step of one job's execution procedure changes only that job's entry,
\* Run and result rows, never those of another job; and a Run or its result
\* rows change only by a step of the Run's own procedure.
C27_Isolation ==
    [][/\ \A j \in Jobs :
            (pc[j] # "none" /\ pc'[j] # pc[j]) =>
               \A k \in Jobs \ {j} :
                  /\ k \in DOMAIN jobStatus => jobStatus'[k] = jobStatus[k]
                  /\ RunOf(k) \in DOMAIN runs =>
                        /\ runs'[RunOf(k)] = runs[RunOf(k)]
                        /\ RowsOf(varRows', RunOf(k)) = RowsOf(varRows, RunOf(k))
                        /\ RowsOf(conRows', RunOf(k)) = RowsOf(conRows, RunOf(k))
       /\ \A r \in DOMAIN runs :
            (\/ r \notin DOMAIN runs'
             \/ runs'[r] # runs[r]
             \/ RowsOf(varRows', r) # RowsOf(varRows, r)
             \/ RowsOf(conRows', r) # RowsOf(conRows, r)) =>
               \E j \in Jobs : RunOf(j) = r /\ pc[j] # "none" /\ pc'[j] # pc[j]]_vars

\* two jobs in flight: one is written with its rows while the other still solves
C27_Witness ==
    \E j, k \in Jobs :
        /\ j # k
        /\ pc[j] = "done" /\ path[j] = "completed"
        /\ RowsOf(varRows, RunOf(j)) # {}
        /\ pc[k] = "solving"
        /\ runs[RunOf(k)].status = "running"
        /\ RowsOf(varRows, RunOf(k)) = {}
        /\ jobStatus[k].status = "running"

\* C28: whenever an entry reads completed, its result_id is the Run's id and
\* the Run, as long as it exists, is committed with a non-error terminal status,
\* its result rows written in the same step; whenever an entry reads failed and
\* the Run still exists, the Run's status is error.  So a poller never sees
\* completed or failed while the Run is queued or running.
C28_EntryBehindRun ==
    /\ [](\A j \in DOMAIN jobStatus :
            /\ jobStatus[j].status = "completed" =>
                  /\ jobStatus[j].result_id = RunOf(j)
                  /\ RunOf(j) \in DOMAIN runs => runs[RunOf(j)].status \in ResultStatuses
            /\ (jobStatus[j].status = "failed" /\ RunOf(j) \in DOMAIN runs) =>
                  runs[RunOf(j)].status = "error")
    /\ [][\A j \in (DOMAIN jobStatus) \cap (DOMAIN jobStatus') :
            (jobStatus[j].status # "completed" /\ jobStatus'[j].status = "completed") =>
               /\ RowsOf(varRows', RunOf(j)) = RowsFor(RunOf(j), Items(result[j].variables))
               /\ RowsOf(conRows', RunOf(j)) =
                     RowsFor(RunOf(j), Items(result[j].constraints))]_vars

\* the exception path wrote error to the Run and failed to the entry
C28_Witness ==
    \E j \in DOMAIN jobStatus :
        /\ jobStatus[j].status = "failed"
        /\ jobStatus[j].result_id = NoneInt
        /\ path[j] = "caught"
        /\ RunOf(j) \in DOMAIN runs
        /\ runs[RunOf(j)].status = "error"
        /\ \E k \in DOMAIN jobStatus :
             jobStatus[k].status = "completed" /\ runs[RunOf(k)].status = "optimal"

\* C29: cancelled is not final for a job that has not finished: the start of
\* the execution procedure sets the entry to running whatever it read before,
\* and the end of the procedure sets it to completed or failed; so an entry of
\* a finished job reads cancelled only by a cancellation that came after the
\* terminal write.
C29_CancelledOverwritten ==
    [][\A j \in Jobs :
         /\ (pc[j] = "scheduled" /\ pc'[j] = "started") =>
               jobStatus'[j].status = "running"
         /\ Finishes(j) => jobStatus'[j].status \in {"completed", "failed"}
         /\ (pc'[j] = "done" /\ jobStatus'[j].status = "cancelled"
                /\ jobStatus[j].status # "cancelled") =>
               pc[j] = "done"]_vars

\* the only job was cancelled while queued and has started since: it reads running
C29_Witness ==
    /\ DOMAIN jobStatus = {1}
    /\ response = 200
    /\ body = CancelResponse
    /\ pc[1] = "started"
    /\ jobStatus[1].status = "running"

\* C30: the listener registered for a token is the channel attached last that
\* is still open: a channel whose endpoint has ended, by the client's
\* disconnect or by its cancel signal (answered with a cancelled message), is
\* not left registered, and the end of an older, replaced channel leaves the
\* registration of the newer channel alone.
C30_RegisteredIsOpen ==
    /\ [](\A t \in DOMAIN active_connections :
            channel[active_connections[t]].at # "ended")
    /\ [][\A s \in Sockets :
            /\ EndpointCancel(s) =>
                  /\ inbox'[s][Len(inbox'[s])].type = "cancelled"
                  /\ channel'[s].at = "ended"
            /\ (EndpointDisconnect(s)
                  /\ channel[s].job_id \in DOMAIN active_connections
                  /\ active_connections[channel[s].job_id] # s) =>
                  UNCHANGED active_connections]_vars

\* C22: for a job with a listener attached, each lifecycle event the execution
\* procedure records in the status table is pushed to that listener as well: a
\* progress update as a progress message, the completion as a complete
\* message, an error as an error message.
C22_EventsPushed ==
    [][\A j \in (DOMAIN jobStatus) \cap (DOMAIN active_connections) :
         LET l == active_connections[j]
             event == IF Finishes(j)
                      THEN IF jobStatus'[j].status = "completed"
                           THEN "complete" ELSE "error"
                      ELSE "progress"
         IN  (Finishes(j) \/ jobStatus'[j].progress # jobStatus[j].progress) =>
                /\ Len(inbox'[l]) = Len(inbox[l]) + 1
                /\ inbox'[l][Len(inbox'[l])] = [type |-> event, job_id |-> j]]_vars

====
